---- MODULE Spec2Model ----
(***************************************************************************)
(* Model of build_calendar-old.py: the listing-page identifier extractor,  *)
(* the event-page parser, the calendar builder and the sequential run of   *)
(* main() with its three file artifacts.                                   *)
(***************************************************************************)
EXTENDS Integers, Sequences, FiniteSets, TLC

VARIABLES
    pc,         \* position of main(): see the actions below
    html,       \* listing markup returned by page.content() (line 177)
    event_ids,  \* main's event_ids (lines 180-182)
    idx,        \* number of loop iterations of line 199 already started
    results,    \* main's results list (lines 193, 211, 216)
    file_ids,   \* public/event_ids.txt: NoFile or <<sequence of lines>>
    file_urls,  \* public/event_id_urls.txt: NoFile or <<sequence of lines>>
    file_ics,   \* public/streamwood_biking.ics: NoFile or <<set of events>>
    fetched,    \* URLs handed to page.goto in this run, in order
    failed,     \* TRUE once a page.goto of this run has raised
    run,        \* number of runs of main() started so far
    page,       \* markup of the event page last fetched; argument of
                \* parse_event_page
    details,    \* value returned by parse_event_page (parser specification)
    file_index, \* public/index.html: NoFile or <<content>>
    events,     \* argument of build_ics (calendar specification)
    cal         \* calendar built by build_ics (calendar specification)

vars == <<pc, html, event_ids, idx, results, file_ids, file_urls, file_ics,
          file_index, fetched, failed, run, page, details, events, cal>>

----------------------------------------------------------------------------
(* Bounds of the model *)

MaxLen == 4          \* length of the enumerated short listing markups
MaxIds == 25         \* distinct identifiers in the generated long markups
MaxRuns == 2         \* consecutive runs of main() over the same public/ dir
MaxWall == 1         \* wall-clock hours 0..MaxWall within a month
MaxCands == 3        \* timestamp candidates in the scripts of one page
MaxTimes == 2        \* time/abbr elements of one page
MaxEvents == 2       \* records handed to build_ics in the calendar spec

----------------------------------------------------------------------------
(* Python values *)

\* An optional value is a sequence of length at most one.
None == <<>>
Some(x) == <<x>>
IsNone(o) == o = <<>>
Val(o) == o[1]

\* A file is absent or has a content.
NoFile == <<>>
File(c) == <<c>>

Range(s) == {s[i] : i \in DOMAIN s}
Min(a, b) == IF a <= b THEN a ELSE b
SeqsUpTo(S, n) == UNION {[1..k -> S] : k \in 0..n}

----------------------------------------------------------------------------
(* extract_event_ids and the cap of main *)

\* Listing markup is a sequence of tokens: the literal path segment, decimal
\* digits, and any other text.
LIT == "/events/"
DigitChar == <<"0", "1", "2", "3", "4", "5", "6", "7", "8", "9">>
IsDigit(c) == c \in Range(DigitChar)

\* End of the maximal digit run of h that starts at position i (i - 1 if none).
RECURSIVE DigitRunEnd(_, _)
DigitRunEnd(h, i) ==
    IF i <= Len(h) /\ IsDigit(h[i]) THEN DigitRunEnd(h, i + 1) ELSE i - 1

\* re.finditer(r"/events/(\d+)", html): group 1 of the non-overlapping matches,
\* left to right.
RECURSIVE FindIds(_, _)
FindIds(h, i) ==
    IF i > Len(h) THEN <<>>
    ELSE IF h[i] = LIT /\ DigitRunEnd(h, i + 1) >= i + 1
         THEN <<SubSeq(h, i + 1, DigitRunEnd(h, i + 1))>>
              \o FindIds(h, DigitRunEnd(h, i + 1) + 1)
         ELSE FindIds(h, i + 1)

\* unique with the membership test lost: every element is yielded.
RECURSIVE unique_nodedup(_, _)
unique_nodedup(seq, seen) ==
    IF seq = <<>> THEN <<>>
    ELSE <<Head(seq)>> \o unique_nodedup(Tail(seq), seen \cup {Head(seq)})

\* unique(seq): yields x the first time it is seen.
RECURSIVE unique_from(_, _)
unique_from(seq, seen) ==
    IF seq = <<>> THEN <<>>
    ELSE IF Head(seq) \notin seen
         THEN <<Head(seq)>> \o unique_from(Tail(seq), seen \cup {Head(seq)})
         ELSE unique_from(Tail(seq), seen)

unique(seq) == unique_from(seq, {})

extract_event_ids(h) == unique(FindIds(h, 1))

CAP == 20
\* list(unique(event_ids))[:20]
Capped(ids) == SubSeq(unique(ids), 1, Min(CAP, Len(unique(ids))))

WorkingSet(h) == Capped(extract_event_ids(h))

----------------------------------------------------------------------------
(* Inputs of the extractor specification *)

ShortAlphabet == {LIT, "1", "2", "x"}
ShortMarkups == SeqsUpTo(ShortAlphabet, MaxLen)

\* Decimal digits of n, 0 <= n <= 99.
Digits(n) ==
    IF n < 10 THEN <<DigitChar[n + 1]>>
    ELSE <<DigitChar[(n \div 10) + 1], DigitChar[(n % 10) + 1]>>

Link(n) == <<LIT>> \o Digits(n)

\* Links 1..n in order; with rep, every link is followed by a second link to
\* the identifier `back` places before it; with sep, links are separated by
\* other text.
RECURSIVE LongMarkup(_, _, _, _)
LongMarkup(n, rep, back, sep) ==
    IF n = 0 THEN <<>>
    ELSE LongMarkup(n - 1, rep, back, sep)
         \o Link(n)
         \o (IF sep THEN <<"x">> ELSE <<>>)
         \o (IF rep /\ n > back THEN Link(n - back) ELSE <<>>)

LongMarkups ==
    {LongMarkup(n, rep, back, sep) :
        n \in 0..MaxIds, rep \in BOOLEAN, back \in 1..2, sep \in BOOLEAN}

Markups == ShortMarkups \cup LongMarkups

----------------------------------------------------------------------------
(* Timestamps *)

\* A datetime is a wall clock (month, hour of the month) and a zone; zone ""
\* is a naive datetime (tzinfo is None).
NAIVE == ""
DEFAULT_TZ == "America/Chicago"
HoursPerMonth == 31 * 24

IsAware(dt) == dt.zone # NAIVE

\* utcoffset() in hours; America/Chicago is CST in winter and CDT in summer.
UtcOffset(dt) ==
    CASE dt.zone = "UTC" -> 0
      [] dt.zone = "+01:00" -> 1
      [] dt.zone = DEFAULT_TZ -> IF dt.mon \in 4..10 THEN 0 - 5 ELSE 0 - 6
      [] OTHER -> 0

Wall(dt) == dt.mon * HoursPerMonth + dt.hr
Instant(dt) == Wall(dt) - UtcOffset(dt)

\* a >= b raises TypeError when exactly one of the two is naive.
Comparable(a, b) == IsAware(a) = IsAware(b)
\* a >= b for comparable datetimes: wall clocks of naive ones, instants of
\* aware ones.
GE(a, b) == IF IsAware(a) THEN Instant(a) >= Instant(b) ELSE Wall(a) >= Wall(b)

\* The text of one timestamp: month, hour and the optional offset or Z suffix.
\* A date string is <<>> (the empty string) or <<t>> for one timestamp text.
ZoneOfSuffix(sfx) ==
    CASE sfx = "Z" -> "UTC"
      [] sfx = "+01:00" -> "+01:00"
      [] OTHER -> NAIVE

\* dateutil's parse: None stands for a raised exception (empty string, or a
\* month outside 1..12).
dp_parse(s) ==
    IF s = <<>> THEN None
    ELSE IF s[1].mon \notin 1..12 THEN None
    ELSE Some([mon |-> s[1].mon, hr |-> s[1].hr, zone |-> ZoneOfSuffix(s[1].sfx)])

----------------------------------------------------------------------------
(* parse_event_page *)

\* A page is what BeautifulSoup finds in it:
\*   og      : property -> Opt(content) for the three Open Graph tags
\*   scripts : the script blocks in document order, each with the words its
\*             text contains and the timestamp texts the regex finds in it
\*   times   : the time/abbr elements, each with its datetime attribute and text
\*   labels  : label -> what soup.find and find_next return for it

\* tag["content"] if tag and tag.has_attr("content") else None
try_og_meta(pg, prop) == pg.og[prop]

\* "event" in txt.lower() and ("start" in txt.lower() or "end" in txt.lower())
Qualifies(script) == script.event /\ (script.start \/ script.end)

\* One candidate with the comparison lost: any later value becomes end.
ScanStepNoCompare(st, c) ==
    LET dt == dp_parse(<<c>>) IN
    IF IsNone(dt) THEN st
    ELSE IF IsNone(st.start) THEN [st EXCEPT !.start = dt]
    ELSE IF IsNone(st.end) THEN [st EXCEPT !.end = dt]
    ELSE st

\* Lines 67-75 for one candidate: st is (start_dt, end_dt).
ScanStep(st, c) ==
    LET dt == dp_parse(<<c>>) IN
    IF IsNone(dt) THEN st                               \* parse raised
    ELSE IF IsNone(st.start) THEN [st EXCEPT !.start = dt]
    ELSE IF IsNone(st.end) /\ ~Comparable(Val(dt), Val(st.start))
         THEN st                                        \* >= raised
    ELSE IF IsNone(st.end) /\ GE(Val(dt), Val(st.start))
         THEN [st EXCEPT !.end = dt]
    ELSE st

\* The scan of one script leaving its loop at the first parsed candidate that
\* is earlier than start.
RECURSIVE ScanCandsBreak(_, _)
ScanCandsBreak(st, cs) ==
    IF cs = <<>> THEN st
    ELSE LET dt == dp_parse(<<Head(cs)>>) IN
         IF ~IsNone(dt) /\ ~IsNone(st.start) /\ IsNone(st.end)
            /\ Comparable(Val(dt), Val(st.start)) /\ ~GE(Val(dt), Val(st.start))
         THEN st
         ELSE ScanCandsBreak(ScanStep(st, Head(cs)), Tail(cs))

\* Lines 65-75: the candidates of one script, left to right.
RECURSIVE ScanCands(_, _)
ScanCands(st, cs) ==
    IF cs = <<>> THEN st ELSE ScanCands(ScanStep(st, Head(cs)), Tail(cs))

\* Lines 59-75: the loop over the script blocks.
RECURSIVE ScanScripts(_, _)
ScanScripts(st, ss) ==
    IF ss = <<>> THEN st
    ELSE ScanScripts(IF Qualifies(Head(ss)) THEN ScanCands(st, Head(ss).cands)
                     ELSE st,
                     Tail(ss))

\* p.get("datetime") or p.get_text(" ", strip=True)
TimeSource(el) ==
    IF ~IsNone(el.attr) /\ Val(el.attr) # <<>> THEN Val(el.attr) ELSE el.text

\* Lines 80-86: the first time/abbr element whose source parses.
RECURSIVE FirstTime(_)
FirstTime(els) ==
    IF els = <<>> THEN None
    ELSE IF ~IsNone(dp_parse(TimeSource(Head(els))))
         THEN dp_parse(TimeSource(Head(els)))
         ELSE FirstTime(Tail(els))

\* Lines 78-86.
TimeFallback(st, pg) ==
    IF IsNone(st.start) THEN [st EXCEPT !.start = FirstTime(pg.times)] ELSE st

\* str.strip() on a text of " " and letter tokens.
RECURSIVE LStrip(_)
LStrip(t) == IF t # <<>> /\ Head(t) = " " THEN LStrip(Tail(t)) ELSE t
RECURSIVE RStrip(_)
RStrip(t) ==
    IF t # <<>> /\ t[Len(t)] = " " THEN RStrip(SubSeq(t, 1, Len(t) - 1)) ELSE t
Strip(t) == LStrip(RStrip(t))

\* node.get_text(strip=True) if node else None
text_or_none(node) == IF IsNone(node) THEN None ELSE Some(Strip(Val(node)))

loc_labels == <<"Location", "Place", "Venue", "Where">>

\* Truthiness of an optional string.
Truthy(o) == ~IsNone(o) /\ Val(o) # <<>>

\* Lines 90-97 from label number k on; location is the value assigned so far.
RECURSIVE LocScan(_, _, _)
LocScan(pg, k, location) ==
    IF k > Len(loc_labels) THEN location
    ELSE LET hit == pg.labels[loc_labels[k]] IN
         IF hit.found /\ ~IsNone(hit.next)
         THEN IF Truthy(text_or_none(hit.next))
              THEN text_or_none(hit.next)
              ELSE LocScan(pg, k + 1, text_or_none(hit.next))
         ELSE LocScan(pg, k + 1, location)

UNTITLED == <<"Untitled Event">>

parse_event_page(pg) ==
    LET title == try_og_meta(pg, "og:title")
        desc  == try_og_meta(pg, "og:description")
        url   == try_og_meta(pg, "og:url")
        scan  == ScanScripts([start |-> None, end |-> None], pg.scripts)
        st    == TimeFallback(scan, pg)
    IN [title       |-> IF Truthy(title) THEN Val(title) ELSE UNTITLED,
        description |-> IF Truthy(desc) THEN Val(desc) ELSE <<>>,
        url         |-> url,
        start       |-> st.start,
        end         |-> st.end,
        location    |-> LocScan(pg, 1, None)]

----------------------------------------------------------------------------
(* build_ics *)

PAGE_SLUG == "StreamwoodBiking"
UID_SUFFIX == "@streamwood-biking"
\* Values of int(time.time()), as the text the f-string makes of them.
Clock == {"1700000000", "1700000001"}

\* A conversion to the zone in place of a relabelling: the wall clock moves by
\* the zone's offset.
localize_convert(dt) ==
    [mon |-> dt.mon,
     hr |-> dt.hr + UtcOffset([dt EXCEPT !.zone = DEFAULT_TZ]),
     zone |-> DEFAULT_TZ]

\* pytz's tz.localize(dt): the same wall clock, in the zone.
localize(dt) == [dt EXCEPT !.zone = DEFAULT_TZ]

\* Lines 116-118 and 121-123: dt if dt.tzinfo is not None.
EnsureAware(dt) == IF dt.zone = NAIVE THEN localize(dt) ELSE dt

\* Lines 112-132: the Event of one record; an attribute left unassigned is None.
MkEvent(e, now) ==
    [name        |-> e.title,
     begin       |-> IF ~IsNone(e.start) THEN Some(EnsureAware(Val(e.start)))
                     ELSE None,
     end         |-> IF ~IsNone(e.end) THEN Some(EnsureAware(Val(e.end)))
                     ELSE None,
     url         |-> IF Truthy(e.url) THEN e.url ELSE None,
     description |-> IF e.description # <<>> THEN Some(e.description) ELSE None,
     location    |-> IF Truthy(e.location) THEN e.location ELSE None,
     uid         |-> (IF Truthy(e.url) THEN Val(e.url)
                      ELSE <<PAGE_SLUG, "-", now>>) \o <<UID_SUFFIX>>]

\* Lines 109-133: cal.events is a set of Events.
build_ics(evs, now) == {MkEvent(evs[i], now) : i \in DOMAIN evs}

----------------------------------------------------------------------------
(* main *)

BASE == <<"https://m.facebook.com/">>
EVENTS_URL == BASE \o <<PAGE_SLUG, "/events/">>
INDEX_HTML == "<html><body>This is test index for SB Cal ...</body></html>"

\* urljoin(BASE, f"events/{eid}")
UrlOf(eid) == BASE \o <<"events/">> \o eid

\* Content of a file read as lines; an absent file has none.
Lines(f) == IF f = NoFile THEN <<>> ELSE f[1]

\* The filter with its condition lost: every record is kept.
FilterKeepAll(rs) == rs

\* Line 216: [r for r in results if r.get("start")]
Filter(rs) == SelectSeq(rs, LAMBDA r : ~IsNone(r.start))

----------------------------------------------------------------------------
(* Inputs *)

Months == {1, 7}
Suffixes == {"", "Z", "+01:00"}
GoodCands == [mon : {7}, hr : 0..MaxWall, sfx : Suffixes]
BadCand == [mon |-> 13, hr |-> 0, sfx |-> ""]
Cands == GoodCands \cup {BadCand}

NoOg == [p \in {"og:title", "og:description", "og:url"} |-> None]
NoHit == [found |-> FALSE, next |-> None]
NoLabels == [l \in Range(loc_labels) |-> NoHit]

Script(ev, st, en, cs) == [event |-> ev, start |-> st, end |-> en, cands |-> cs]
TimeEl(a, t) == [attr |-> a, text |-> t]
Page(og, ss, ts, ls) == [og |-> og, scripts |-> ss, times |-> ts, labels |-> ls]

JanFirst == [mon |-> 1, hr |-> 0, sfx |-> ""]
GoodTime == TimeEl(None, <<JanFirst>>)

\* One qualifying script with up to MaxCands candidates.
OneScriptPages ==
    {Page(NoOg, <<Script(TRUE, TRUE, FALSE, cs)>>, ts, NoLabels) :
        cs \in SeqsUpTo(Cands, MaxCands), ts \in {<<>>, <<GoodTime>>}}

\* Two scripts with any words and at most one candidate each.
ShortScripts ==
    {Script(ev, st, en, cs) :
        ev \in BOOLEAN, st \in BOOLEAN, en \in BOOLEAN,
        cs \in SeqsUpTo(Cands, 1)}
TwoScriptPages ==
    {Page(NoOg, <<s1, s2>>, <<>>, NoLabels) : s1 \in ShortScripts, s2 \in ShortScripts}

\* time/abbr elements, with a script that finds a start or none.
TimeEls ==
    {TimeEl(a, t) :
        a \in {None, Some(<<>>), Some(<<BadCand>>),
               Some(<<[mon |-> 7, hr |-> 0, sfx |-> "Z"]>>)},
        t \in {<<>>, <<BadCand>>, <<JanFirst>>}}
TimePages ==
    {Page(NoOg, ss, ts, NoLabels) :
        ss \in {<<>>, <<Script(TRUE, FALSE, TRUE, <<BadCand>>)>>,
                <<Script(TRUE, FALSE, TRUE, <<JanFirst, JanFirst>>)>>},
        ts \in SeqsUpTo(TimeEls, MaxTimes)}

\* Label hits: no match, a match with no following element, or a following
\* element with a text.
Texts == {<<>>, <<" ">>, <<"a">>, <<" ", "b", " ">>}
Hits == {NoHit, [found |-> TRUE, next |-> None]}
            \cup {[found |-> TRUE, next |-> Some(t)] : t \in Texts}
LabelPages == {Page(NoOg, <<>>, <<>>, ls) : ls \in [Range(loc_labels) -> Hits]}

OgContents == {None, Some(<<>>), Some(<<"Ride">>)}
OgPages ==
    {Page([p \in DOMAIN NoOg |-> IF p = "og:title" THEN t
                                 ELSE IF p = "og:description" THEN d ELSE u],
          <<>>, <<GoodTime>>, NoLabels) :
        t \in OgContents, d \in OgContents, u \in OgContents}

ParserPages ==
    OneScriptPages \cup TwoScriptPages \cup TimePages \cup LabelPages \cup OgPages

\* Records handed to build_ics: end, when set, is not before start.
Starts == [mon : Months, hr : 0..MaxWall, zone : {NAIVE, "UTC"}]
Rec(t, s, e, u) ==
    [title |-> t, description |-> <<>>, url |-> u, start |-> s, end |-> e,
     location |-> None]
Records ==
    {Rec(UNTITLED, None, None, Some(<<"u">>)),
     Rec(UNTITLED, Some([mon |-> 1, hr |-> 0, zone |-> NAIVE]), None, None)}
    \cup UNION {{Rec(<<"Ride">>, Some(s), e, Some(<<"u">>)) :
                    e \in {None, Some(s), Some([s EXCEPT !.hr = s.hr + 1])}} :
                 s \in Starts}

\* Listing markups and event pages served to the runs of main.
ListingMarkups ==
    {<<>>, <<"x", LIT, "1">>, <<LIT, "1", "x", LIT, "2", LIT, "1">>}

PageNoStart ==
    Page([NoOg EXCEPT !["og:title"] = Some(<<"Ride">>),
                      !["og:url"] = Some(<<"u">>)],
         <<Script(TRUE, FALSE, FALSE, <<JanFirst>>)>>, <<>>,
         [NoLabels EXCEPT !["Venue"] = [found |-> TRUE, next |-> Some(<<"a">>)]])
PageNaive ==
    Page(NoOg, <<Script(TRUE, TRUE, FALSE, <<JanFirst>>)>>, <<>>, NoLabels)
PageAware ==
    Page([NoOg EXCEPT !["og:title"] = Some(<<"Ride">>)],
         <<Script(TRUE, TRUE, TRUE,
                  <<[mon |-> 7, hr |-> 0, sfx |-> "Z"],
                    [mon |-> 7, hr |-> 1, sfx |-> "+01:00"]>>)>>,
         <<>>, NoLabels)
EventPages == {PageNoStart, PageNaive, PageAware}

----------------------------------------------------------------------------
(* The run of main *)

\* Start of main (lines 147-170): the browser is launched and the locals of
\* the run are fresh; the files of earlier runs are still in public/.
StartRun ==
    /\ pc \in {"idle", "done", "aborted"}
    /\ run < MaxRuns
    /\ run' = run + 1
    /\ pc' = "goto_listing"
    /\ html' = None
    /\ event_ids' = <<>>
    /\ idx' = 0
    /\ results' = <<>>
    /\ fetched' = <<>>
    /\ failed' = FALSE
    /\ page' = None
    /\ UNCHANGED <<file_ids, file_urls, file_ics, file_index, details, events, cal>>

\* Lines 171-177: the listing page is fetched and its markup read.
GotoListing ==
    /\ pc = "goto_listing"
    /\ \E h \in ListingMarkups : html' = Some(h)
    /\ fetched' = Append(fetched, EVENTS_URL)
    /\ pc' = "write_ids"
    /\ UNCHANGED <<event_ids, idx, results, file_ids, file_urls, file_ics,
                   file_index, failed, run, page, details, events, cal>>

\* Line 171 raises: the exception leaves main.
GotoListingFails ==
    /\ pc = "goto_listing"
    /\ fetched' = Append(fetched, EVENTS_URL)
    /\ failed' = TRUE
    /\ pc' = "aborted"
    /\ UNCHANGED <<html, event_ids, idx, results, file_ids, file_urls, file_ics,
                   file_index, run, page, details, events, cal>>

\* x + '\n'
Line(x) == x \o <<"\n">>

\* Lines 180-191: the working set, written to event_ids.txt when not empty.
WriteIds ==
    /\ pc = "write_ids"
    /\ event_ids' = WorkingSet(Val(html))
    /\ file_ids' = IF event_ids' # <<>>
                   THEN File([i \in DOMAIN event_ids' |-> Line(event_ids'[i])])
                   ELSE file_ids
    /\ pc' = "reset_urls"
    /\ UNCHANGED <<html, idx, results, file_urls, file_ics, file_index, fetched,
                   failed, run, page, details, events, cal>>

\* The removal left out: the URL list of the earlier run stays.
ResetUrlsKeep ==
    /\ pc = "reset_urls"
    /\ results' = <<>>
    /\ pc' = "loop"
    /\ UNCHANGED <<html, event_ids, idx, file_ids, file_urls, file_ics,
                   file_index, fetched, failed, run, page, details, events, cal>>

\* Lines 193-196: results = [] and event_id_urls.txt removed.
ResetUrls ==
    /\ pc = "reset_urls"
    /\ results' = <<>>
    /\ file_urls' = NoFile
    /\ pc' = "loop"
    /\ UNCHANGED <<html, event_ids, idx, file_ids, file_ics, file_index, fetched,
                   failed, run, page, details, events, cal>>

\* Lines 199-203: the next identifier; its URL is appended to the URL list.
Visit ==
    /\ pc = "loop"
    /\ idx < Len(event_ids)
    /\ idx' = idx + 1
    /\ file_urls' = File(Append(Lines(file_urls), Line(UrlOf(event_ids[idx + 1]))))
    /\ pc' = "goto_event"
    /\ UNCHANGED <<html, event_ids, results, file_ids, file_ics, file_index,
                   fetched, failed, run, page, details, events, cal>>

\* Line 204 and page.content(): the event page is fetched.
GotoEvent ==
    /\ pc = "goto_event"
    /\ \E pg \in EventPages : page' = Some(pg)
    /\ fetched' = Append(fetched, UrlOf(event_ids[idx]))
    /\ pc' = "parse"
    /\ UNCHANGED <<html, event_ids, idx, results, file_ids, file_urls, file_ics,
                   file_index, failed, run, details, events, cal>>

\* A failed fetch that is tried again.
GotoEventRetry ==
    /\ pc = "goto_event"
    /\ Len(fetched) <= idx + 1
    /\ fetched' = Append(fetched, UrlOf(event_ids[idx]))
    /\ failed' = TRUE
    /\ pc' = "goto_event"
    /\ UNCHANGED <<html, event_ids, idx, results, file_ids, file_urls, file_ics,
                   file_index, run, page, details, events, cal>>

\* A failed fetch that is skipped: the loop goes on to the next identifier.
GotoEventSkip ==
    /\ pc = "goto_event"
    /\ fetched' = Append(fetched, UrlOf(event_ids[idx]))
    /\ failed' = TRUE
    /\ pc' = "loop"
    /\ UNCHANGED <<html, event_ids, idx, results, file_ids, file_urls, file_ics,
                   file_index, run, page, details, events, cal>>

\* Line 204 raises: the exception leaves main.
GotoEventFails ==
    /\ pc = "goto_event"
    /\ fetched' = Append(fetched, UrlOf(event_ids[idx]))
    /\ failed' = TRUE
    /\ pc' = "aborted"
    /\ UNCHANGED <<html, event_ids, idx, results, file_ids, file_urls, file_ics,
                   file_index, run, page, details, events, cal>>

\* Lines 205-211: the page is parsed, the URL defaulted, the record appended.
ParseEvent ==
    /\ pc = "parse"
    /\ LET d == parse_event_page(Val(page)) IN
       results' = Append(results,
                         IF Truthy(d.url) THEN d
                         ELSE [d EXCEPT !.url = Some(UrlOf(event_ids[idx]))])
    /\ pc' = "loop"
    /\ UNCHANGED <<html, event_ids, idx, file_ids, file_urls, file_ics,
                   file_index, fetched, failed, run, page, details, events, cal>>

\* Lines 213-218: after the loop the records are filtered, the calendar is
\* built and written, and the index is written.
Finish ==
    /\ pc = "loop"
    /\ idx = Len(event_ids)
    /\ results' = Filter(results)
    /\ \E now \in Clock : file_ics' = File(build_ics(results', now))
    /\ file_index' = File(INDEX_HTML)
    /\ pc' = "done"
    /\ UNCHANGED <<html, event_ids, idx, file_ids, file_urls, fetched, failed,
                   run, page, details, events, cal>>

Init ==
    /\ pc = "idle"
    /\ html = None
    /\ event_ids = <<>>
    /\ idx = 0
    /\ results = <<>>
    /\ file_ids = NoFile
    /\ file_urls = NoFile
    /\ file_ics = NoFile
    /\ file_index = NoFile
    /\ fetched = <<>>
    /\ failed = FALSE
    /\ run = 0
    /\ page = None
    /\ details = None
    /\ events = <<>>
    /\ cal = {}

Next ==
    \/ StartRun
    \/ GotoListing
    \/ GotoListingFails
    \/ WriteIds
    \/ ResetUrls
    \/ Visit
    \/ GotoEvent
    \/ GotoEventFails
    \/ ParseEvent
    \/ Finish

Spec == Init /\ [][Next]_vars

----------------------------------------------------------------------------
(* extract_event_ids and the cap on every listing markup *)

\* The locals and files that a specification of one function leaves alone.
Quiet ==
    /\ idx = 0
    /\ results = <<>>
    /\ file_ids = NoFile
    /\ file_urls = NoFile
    /\ file_ics = NoFile
    /\ file_index = NoFile
    /\ fetched = <<>>
    /\ failed = FALSE
    /\ run = 0

InitExtract ==
    /\ pc = "write_ids"
    /\ \E h \in Markups : html = Some(h)
    /\ event_ids = <<>>
    /\ page = None
    /\ details = None
    /\ events = <<>>
    /\ cal = {}
    /\ Quiet

\* Line 180.
ExtractIds ==
    /\ pc = "write_ids"
    /\ event_ids' = extract_event_ids(Val(html))
    /\ pc' = "extracted"
    /\ UNCHANGED <<html, idx, results, file_ids, file_urls, file_ics, file_index,
                   fetched, failed, run, page, details, events, cal>>

\* Line 182.
CapIds ==
    /\ pc = "extracted"
    /\ event_ids' = Capped(event_ids)
    /\ pc' = "capped"
    /\ UNCHANGED <<html, idx, results, file_ids, file_urls, file_ics, file_index,
                   fetched, failed, run, page, details, events, cal>>

NextExtract == ExtractIds \/ CapIds

SpecExtract == InitExtract /\ [][NextExtract]_vars

----------------------------------------------------------------------------
(* parse_event_page on every page *)

InitParse ==
    /\ pc = "parse"
    /\ html = None
    /\ event_ids = <<>>
    /\ \E pg \in ParserPages : page = Some(pg)
    /\ details = None
    /\ events = <<>>
    /\ cal = {}
    /\ Quiet

\* Line 205.
ParsePage ==
    /\ pc = "parse"
    /\ details' = Some(parse_event_page(Val(page)))
    /\ pc' = "parsed"
    /\ UNCHANGED <<html, event_ids, idx, results, file_ids, file_urls, file_ics,
                   file_index, fetched, failed, run, page, events, cal>>

NextParse == ParsePage

SpecParse == InitParse /\ [][NextParse]_vars

----------------------------------------------------------------------------
(* build_ics on every list of records *)

InitIcs ==
    /\ pc = "build"
    /\ html = None
    /\ event_ids = <<>>
    /\ page = None
    /\ details = None
    /\ events \in SeqsUpTo(Records, MaxEvents)
    /\ cal = {}
    /\ Quiet

\* Lines 108-138.
BuildIcs ==
    /\ pc = "build"
    /\ \E now \in Clock : cal' = build_ics(events, now)
    /\ file_ics' = File(cal')
    /\ pc' = "built"
    /\ UNCHANGED <<html, event_ids, idx, results, file_ids, file_urls,
                   file_index, fetched, failed, run, page, details, events>>

NextIcs == BuildIcs

SpecIcs == InitIcs /\ [][NextIcs]_vars

----------------------------------------------------------------------------
(* Claims about the identifier extractor (SpecExtract) *)

Matches == FindIds(Val(html), 1)
FirstAt(ms, x) == CHOOSE i \in DOMAIN ms : ms[i] = x /\ \A j \in 1..(i - 1) : ms[j] # x

\* C1: the working set is the first min(20, n) of the n distinct identifiers
\* matched in the listing markup, in the order of their first occurrences and
\* without repetition.
C1_WorkingSetIsCappedFirstOccurrences ==
    pc = "capped" =>
        /\ Len(event_ids) = Min(20, Cardinality(Range(Matches)))
        /\ \A i, j \in DOMAIN event_ids : i # j => event_ids[i] # event_ids[j]
        /\ \A i \in DOMAIN event_ids : event_ids[i] \in Range(Matches)
        /\ \A i, j \in DOMAIN event_ids :
              i < j => FirstAt(Matches, event_ids[i]) < FirstAt(Matches, event_ids[j])
        /\ \A x \in Range(Matches) \ Range(event_ids) :
              \A i \in DOMAIN event_ids :
                  FirstAt(Matches, event_ids[i]) < FirstAt(Matches, x)
        /\ (Matches = <<Digits(1), Digits(2), Digits(1)>>
               => event_ids = <<Digits(1), Digits(2)>>)

\* 25 distinct identifiers, some linked twice, capped to the first 20.
C1_Witness ==
    /\ pc = "capped"
    /\ Cardinality(Range(Matches)) = 25
    /\ Len(Matches) > 25
    /\ event_ids = [i \in 1..20 |-> Digits(i)]

----------------------------------------------------------------------------
(* Claims about parse_event_page (SpecParse) *)

\* Candidates of the qualifying scripts of a page, in document order.
RECURSIVE AllCands(_)
AllCands(ss) ==
    IF ss = <<>> THEN <<>>
    ELSE (IF Qualifies(Head(ss)) THEN Head(ss).cands ELSE <<>>) \o AllCands(Tail(ss))

PageCands == AllCands(Val(page).scripts)
Parsed(c) == Val(dp_parse(<<c>>))
Parses(c) == ~IsNone(dp_parse(<<c>>))
NotBefore(c, d) == Comparable(Parsed(c), Parsed(d)) /\ GE(Parsed(c), Parsed(d))
Before(c, d) == Comparable(Parsed(c), Parsed(d)) /\ ~GE(Parsed(c), Parsed(d))

\* The page's first two candidates are T1 and an earlier T2.
T1ThenEarlierT2 ==
    /\ Len(PageCands) >= 2
    /\ Parses(PageCands[1]) /\ Parses(PageCands[2])
    /\ Before(PageCands[2], PageCands[1])

\* C3 as stated: after T1 and an earlier T2, start is T1 and end stays unset,
\* whatever follows T2.
C3_EndStaysUnset ==
    (pc = "parsed" /\ T1ThenEarlierT2) =>
        /\ Val(details).start = Some(Parsed(PageCands[1]))
        /\ IsNone(Val(details).end)

\* Positions after T2 of the candidates that parse and are not before T1.
LaterValid ==
    {k \in 3..Len(PageCands) :
        Parses(PageCands[k]) /\ NotBefore(PageCands[k], PageCands[1])}

\* C3 as amended: after T1 and an earlier T2, start is T1; T2 is discarded and
\* end is the first later candidate T3 >= T1, unset only when there is none.
C3_EndIsFirstLaterValid ==
    (pc = "parsed" /\ T1ThenEarlierT2) =>
        /\ Val(details).start = Some(Parsed(PageCands[1]))
        /\ (LaterValid = {} => IsNone(Val(details).end))
        /\ (LaterValid # {} =>
               \E k \in LaterValid :
                   /\ \A m \in LaterValid : k <= m
                   /\ Val(details).end = Some(Parsed(PageCands[k])))

\* T1, an earlier T2, then T3 >= T1: end is T3.
C3_Witness ==
    /\ pc = "parsed"
    /\ T1ThenEarlierT2
    /\ Len(PageCands) = 3
    /\ 3 \in LaterValid
    /\ Val(details).end = Some(Parsed(PageCands[3]))

\* C4: in the record of any page, a set end comes with a set start that it is
\* not before, and a start found by the time-element fallback has no end.
C4_EndNotBeforeStart ==
    pc = "parsed" =>
        /\ (~IsNone(Val(details).end) =>
               /\ ~IsNone(Val(details).start)
               /\ Comparable(Val(Val(details).end), Val(Val(details).start))
               /\ GE(Val(Val(details).end), Val(Val(details).start)))
        /\ ((\A k \in DOMAIN PageCands : ~Parses(PageCands[k]))
               => IsNone(Val(details).end))

\* Two qualifying scripts: the first gives start, the second a later end.
C4_Witness ==
    /\ pc = "parsed"
    /\ Len(Val(page).scripts) = 2
    /\ ~IsNone(Val(details).end)
    /\ Val(Val(details).end) # Val(Val(details).start)
    /\ Val(Val(details).end).zone # Val(Val(details).start).zone

\* Labels, in priority order, whose following element has a non-empty text.
Yielding ==
    {k \in DOMAIN loc_labels :
        LET hit == Val(page).labels[loc_labels[k]] IN
        hit.found /\ ~IsNone(hit.next) /\ Strip(Val(hit.next)) # <<>>}

\* C9: location is the text after the first label, in priority order, that
\* yields a non-empty text, and is unset (not an empty string) when none does.
C9_LocationFirstNonEmptyOrUnset ==
    pc = "parsed" =>
        /\ (Yielding = {} => IsNone(Val(details).location))
        /\ (Yielding # {} =>
               \E k \in Yielding :
                   /\ \A m \in Yielding : k <= m
                   /\ Val(details).location
                        = Some(Strip(Val(Val(page).labels[loc_labels[k]].next))))

----------------------------------------------------------------------------
(* Claims about build_ics (SpecIcs) *)

\* The zone-normalised form the claim gives for a start or end.
Normalised(o, ev_o) ==
    IF IsNone(o) THEN IsNone(ev_o)
    ELSE /\ ~IsNone(ev_o)
         /\ Val(ev_o).mon = Val(o).mon
         /\ Val(ev_o).hr = Val(o).hr
         /\ Val(ev_o).zone = (IF Val(o).zone = NAIVE THEN "America/Chicago"
                              ELSE Val(o).zone)

\* C8: for every record with a start, the event's begin (and end) is the
\* record's with the same wall clock, in America/Chicago when it had no zone
\* and in its own zone otherwise.
C8_ZoneNormalisation ==
    pc = "built" =>
        /\ \A i \in DOMAIN events :
              ~IsNone(events[i].start) =>
                  \E ev \in cal :
                      /\ ev.name = events[i].title
                      /\ Normalised(events[i].start, ev.begin)
                      /\ Normalised(events[i].end, ev.end)
        /\ \A ev \in cal :
              \E i \in DOMAIN events :
                  /\ Normalised(events[i].start, ev.begin)
                  /\ Normalised(events[i].end, ev.end)

\* A naive record with an end and a zone-aware record in one calendar.
C8_Witness ==
    /\ pc = "built"
    /\ \E i, j \in DOMAIN events :
          /\ ~IsNone(events[i].start) /\ Val(events[i].start).zone = NAIVE
          /\ ~IsNone(events[i].end)
          /\ ~IsNone(events[j].start) /\ Val(events[j].start).zone = "UTC"
    /\ \E ev \in cal : ~IsNone(ev.begin) /\ Val(ev.begin).zone = "America/Chicago"

----------------------------------------------------------------------------
(* Claims about the run of main (Spec) *)

\* C2: the step that writes the calendar keeps, in order, exactly the records
\* with a start, and every event written has a begin and comes from one of
\* them; a record without a start becomes no event.
C2_NoStartNoEvent ==
    [][(pc = "loop" /\ pc' = "done") =>
          /\ results' = SelectSeq(results, LAMBDA r : r.start # None)
          /\ file_ics' # NoFile
          /\ \A ev \in Val(file_ics') :
                /\ ev.begin # None
                /\ \E i \in DOMAIN results :
                      /\ results[i].start # None
                      /\ ev.name = results[i].title
                      /\ ev.url = results[i].url
          /\ \A i \in DOMAIN results :
                results[i].start # None =>
                    \E ev \in Val(file_ics') :
                        ev.name = results[i].title /\ ev.url = results[i].url]_vars

\* A finished run that dropped a record without start and kept another.
C2_Witness ==
    /\ pc = "done"
    /\ Len(event_ids) = 2
    /\ Len(results) = 1
    /\ Cardinality(Val(file_ics)) = 1

\* C5: the calendar is written only by the step that ends a run whose every
\* page was fetched and parsed; once a fetch has failed the run does nothing
\* more and the calendar file keeps its content.
C5_CalendarOnlyAfterAllPages ==
    [][/\ (file_ics' # file_ics \/ (pc' = "done" /\ pc # "done")) =>
              /\ pc = "loop" /\ pc' = "done"
              /\ ~failed
              /\ idx = Len(event_ids)
              /\ Len(results) = Len(event_ids)
              /\ Len(fetched) = Len(event_ids) + 1
       /\ (failed' /\ run' = run) => (pc' = "aborted" /\ file_ics' = file_ics)]_vars

\* A second run aborted at an event page, the calendar of the first run kept.
C5_Witness ==
    /\ run = 2
    /\ pc = "aborted"
    /\ Len(fetched) = 2
    /\ file_ics # NoFile
    /\ Val(file_ics) # {}

\* This run has computed its working set (lines 180-191 are behind it).
IdsWritten ==
    \/ pc \in {"reset_urls", "loop", "goto_event", "parse", "done"}
    \/ pc = "aborted" /\ html # None

\* C6: once the working set of a run is computed, event_ids.txt holds exactly
\* its identifiers, one per line in order, also when the working set is empty.
C6_IdsFileIsThisRunsWorkingSet ==
    IdsWritten => Lines(file_ids) = [i \in DOMAIN event_ids |-> event_ids[i] \o <<"\n">>]

\* URLs of the identifiers visited so far in this run, one per line.
VisitedUrlLines ==
    [i \in 1..idx |-> <<"https://m.facebook.com/", "events/">> \o event_ids[i] \o <<"\n">>]

\* C7 as stated: at every point of a run after its start the URL list holds
\* exactly the URLs of the identifiers visited so far in this run.
C7_UrlsFileFromRunStart ==
    pc # "idle" => Lines(file_urls) = VisitedUrlLines

\* This run has removed the URL list (lines 195-196 are behind it).
UrlsRemoved ==
    \/ pc \in {"loop", "goto_event", "parse", "done"}
    \/ pc = "aborted" /\ html # None

\* C7 as amended: from the removal of the URL list on (it follows the fetch of
\* the listing page) the file holds exactly the URLs of the identifiers visited
\* so far in this run, the one whose fetch failed included; until then, and in
\* a run aborted at the listing page, it keeps what it held before.
C7_UrlsFileFromRemoval ==
    [][/\ UrlsRemoved' => Lines(file_urls') = VisitedUrlLines'
       /\ ~UrlsRemoved' => file_urls' = file_urls]_vars

\* A second run aborted at its second event page after a first run that
\* visited identifiers.
C7_Witness ==
    /\ run = 2
    /\ pc = "aborted"
    /\ idx = 2
    /\ Len(Lines(file_urls)) = 2
    /\ file_ics # NoFile

\* The URLs a complete run fetches, in order.
FetchPlan == <<EVENTS_URL>> \o [i \in DOMAIN event_ids |-> UrlOf(event_ids[i])]

\* C10: fetches follow the working-set order with no URL fetched twice, the
\* page of an identifier is fetched only when the records of all earlier ones
\* are in results, and after a failed fetch nothing is fetched or recorded.
C10_SequentialNoRetry ==
    [][/\ Len(fetched') <= Len(FetchPlan') \/ event_ids' = <<>>
       /\ event_ids' # <<>> =>
              \A i \in DOMAIN fetched' : fetched'[i] = FetchPlan'[i]
       /\ \A i, j \in DOMAIN fetched' : i # j => fetched'[i] # fetched'[j]
       /\ (fetched' # fetched /\ Len(fetched') >= 2) =>
              /\ pc = "goto_event"
              /\ Len(results) = Len(fetched') - 2
              /\ Len(results) = idx - 1
       /\ (failed /\ run' = run) =>
              /\ fetched' = fetched
              /\ results' = results
              /\ pc' = "aborted"]_vars

\* A run aborted at its second event page: two event fetches, one record.
C10_Witness ==
    /\ pc = "aborted"
    /\ Len(fetched) = 3
    /\ Len(results) = 1
    /\ idx = 2

====
